---- MODULE Spec2Model ----
(***************************************************************************)
(* Model of the natal chart service (src/main.py).                         *)
(*                                                                         *)
(* Strings are sequences of one-character strings, so that str.split and   *)
(* int() are modelled by what they do to the characters.  Longitudes and   *)
(* latitudes are fixed-point numbers in thousandths of a degree.  A UTC    *)
(* offset in hours is an exact quantity given as whole minutes plus        *)
(* quarter-microseconds, so that the rounding of timedelta(hours=...) to   *)
(* whole microseconds is part of the model.                                *)
(***************************************************************************)
EXTENDS Integers, Sequences, FiniteSets, TLC

(***************************************************************************)
(* Bounds of the model.                                                    *)
(***************************************************************************)
\* number of request-handling threads of the concurrent specification
NumWorkers == 2
\* number of requests the service receives in one behaviour
MaxRequests == 3
\* the sign mapper is exercised on longitudes of -MaxTurns..MaxTurns turns
MaxTurns == 2

(***************************************************************************)
(* Fixed-point units.                                                      *)
(***************************************************************************)
\* thousandths of a degree in one degree
Milli == 1000
\* microseconds in one minute
UsPerMinute == 60000000
\* quarter-microseconds in one minute
QusPerMinute == 240000000

(***************************************************************************)
(* SIGNS_RU, src/main.py:11-24 (Python list, 0-based).  The Russian names  *)
(* are written in Latin transliteration: Oven is Aries, Telets Taurus,     *)
(* Kozerog Capricorn, Ryby Pisces.                                         *)
(***************************************************************************)
SIGNS_RU ==
    << "Oven", "Telets", "Bliznetsy", "Rak", "Lev", "Deva",
       "Vesy", "Skorpion", "Strelets", "Kozerog", "Vodoley", "Ryby" >>

(***************************************************************************)
(* Python list indexing list[i]: 0-based, a negative index counts from the *)
(* end, anything else raises IndexError.                                   *)
(***************************************************************************)
ListIndex(list, i) ==
    IF 0 <= i /\ i < Len(list) THEN list[i + 1]
    ELSE IF -Len(list) <= i /\ i < 0 THEN list[Len(list) + i + 1]
    ELSE "IndexError"

(***************************************************************************)
(* Python float floor division lon // 30 followed by int(): the floor of   *)
(* the quotient.  lon is in thousandths of a degree.                       *)
(***************************************************************************)
FloorDiv30(lon) == lon \div (30 * Milli)

\* int(lon / 30): truncation toward zero instead of the floor
TruncDiv30(lon) ==
    IF lon >= 0 THEN lon \div (30 * Milli) ELSE -((-lon) \div (30 * Milli))

\* the index without the reduction modulo 12
SignIndexNoMod(lon) == FloorDiv30(lon)

\* the index computed with truncated division
SignIndexTrunc(lon) == TruncDiv30(lon) % 12

\* index = int(lon // 30) % 12   (src/main.py:90)
SignIndex(lon) == FloorDiv30(lon) % 12

\* _sign_from_longitude, src/main.py:89-91
SignFromLongitude(lon) == ListIndex(SIGNS_RU, SignIndex(lon))

(***************************************************************************)
(* Text.                                                                   *)
(***************************************************************************)
Digits == {"0", "1", "2", "3", "4", "5", "6", "7", "8", "9"}

DigitVal(c) ==
    CASE c = "0" -> 0 [] c = "1" -> 1 [] c = "2" -> 2 [] c = "3" -> 3
      [] c = "4" -> 4 [] c = "5" -> 5 [] c = "6" -> 6 [] c = "7" -> 7
      [] c = "8" -> 8 [] c = "9" -> 9

\* str.split(sep) with a one-character separator
RECURSIVE SplitFrom(_, _, _, _)
SplitFrom(s, sep, i, cur) ==
    IF i > Len(s) THEN << cur >>
    ELSE IF s[i] = sep THEN << cur >> \o SplitFrom(s, sep, i + 1, << >>)
    ELSE SplitFrom(s, sep, i + 1, Append(cur, s[i]))

Split(s, sep) == SplitFrom(s, sep, 1, << >>)

\* str.strip() as int() applies it: leading and trailing blanks removed
RECURSIVE LStrip(_)
LStrip(s) == IF Len(s) > 0 /\ s[1] = " " THEN LStrip(Tail(s)) ELSE s

RECURSIVE RStrip(_)
RStrip(s) ==
    IF Len(s) > 0 /\ s[Len(s)] = " " THEN RStrip(SubSeq(s, 1, Len(s) - 1))
    ELSE s

Strip(s) == RStrip(LStrip(s))

\* the literal without its optional sign
Unsigned(s) ==
    IF Len(s) > 0 /\ s[1] \in {"+", "-"} THEN Tail(s) ELSE s

\* digits, with single underscores allowed between digits
IsDigitString(s) ==
    /\ Len(s) > 0
    /\ s[1] \in Digits
    /\ s[Len(s)] \in Digits
    /\ \A i \in 1..Len(s) : s[i] \in Digits \cup {"_"}
    /\ \A i \in 1..(Len(s) - 1) : ~(s[i] = "_" /\ s[i + 1] = "_")

RECURSIVE DigitsValue(_, _)
DigitsValue(s, acc) ==
    IF Len(s) = 0 THEN acc
    ELSE IF s[1] = "_" THEN DigitsValue(Tail(s), acc)
    ELSE DigitsValue(Tail(s), 10 * acc + DigitVal(s[1]))

\* int(text): ok is FALSE where Python raises ValueError
PyInt(text) ==
    LET t == Strip(text)
        u == Unsigned(t)
    IN  IF ~IsDigitString(u) THEN [ok |-> FALSE, val |-> 0]
        ELSE [ok |-> TRUE,
              val |-> IF t[1] = "-" THEN -DigitsValue(u, 0)
                      ELSE DigitsValue(u, 0)]

\* a, b, ... = map(int, text.split(sep)) with n targets
UnpackInts(text, sep, n) ==
    LET parts == Split(text, sep)
    IN  IF Len(parts) # n \/ \E i \in 1..Len(parts) : ~PyInt(parts[i]).ok
        THEN [ok |-> FALSE, vals |-> << >>]
        ELSE [ok |-> TRUE, vals |-> [i \in 1..n |-> PyInt(parts[i]).val]]

(***************************************************************************)
(* Calendar of datetime.                                                   *)
(***************************************************************************)
MINYEAR == 1
MAXYEAR == 9999

IsLeap(y) == (y % 4 = 0) /\ ((y % 100 # 0) \/ (y % 400 = 0))

DaysInMonth(y, m) ==
    IF m = 2 THEN (IF IsLeap(y) THEN 29 ELSE 28)
    ELSE IF m \in {4, 6, 9, 11} THEN 30 ELSE 31

\* the field checks of the datetime constructor
ValidDateTimeFields(y, m, d, hh, mm) ==
    /\ MINYEAR <= y /\ y <= MAXYEAR
    /\ 1 <= m /\ m <= 12
    /\ 1 <= d /\ d <= DaysInMonth(y, m)
    /\ 0 <= hh /\ hh <= 23
    /\ 0 <= mm /\ mm <= 59

(***************************************************************************)
(* timedelta(hours=tz_offset_hours), src/main.py:76.  The offset is        *)
(* [min, qus]: min whole minutes plus qus quarter-microseconds, with       *)
(* 0 <= qus < QusPerMinute.  timedelta keeps whole microseconds, rounding  *)
(* half to even; the result is [min, us] with 0 <= us < UsPerMinute.       *)
(***************************************************************************)
RoundHalfEven4(q) ==
    LET base == q \div 4
        r    == q % 4
    IN  IF r < 2 THEN base
        ELSE IF r > 2 THEN base + 1
        ELSE IF base % 2 = 0 THEN base ELSE base + 1

TimedeltaHours(tz) ==
    LET us == RoundHalfEven4(tz.qus)
    IN  IF us = UsPerMinute THEN [min |-> tz.min + 1, us |-> 0]
        ELSE [min |-> tz.min, us |-> us]

\* an offset check that lets a whole day through
TimezoneAcceptsInclusive(td) ==
    /\ td.min >= -1440
    /\ (td.min < 1440 \/ (td.min = 1440 /\ td.us = 0))

\* timezone(offset): offset strictly between -24 h and 24 h, else ValueError
TimezoneAccepts(td) ==
    /\ (td.min > -1440 \/ (td.min = -1440 /\ td.us > 0))
    /\ td.min < 1440

(***************************************************************************)
(* birth_time is [present, s]; Python truth of an Optional[str]: None and  *)
(* the empty string are false.                                             *)
(***************************************************************************)
Truthy(bt) == bt.present /\ Len(bt.s) > 0

\* the substitute for an absent birth_time, shifted to midnight
DefaultTimeMidnight == << 0, 0 >>

\* hours, minutes = 12, 0   (src/main.py:74)
DefaultTime == << 12, 0 >>

Raised(exc, at) ==
    [exc |-> exc, at |-> at, year |-> 0, month |-> 0, day |-> 0,
     hour |-> 0, minute |-> 0, offset |-> [min |-> 0, us |-> 0]]

(***************************************************************************)
(* _parse_local_datetime, src/main.py:67-77.  exc is "none" and the fields *)
(* are those of the returned datetime, or exc is the exception raised and  *)
(* at is the statement that raised it.                                     *)
(***************************************************************************)
ParseLocalDatetime(birth_date, birth_time, tz_offset_hours) ==
    LET ymd == UnpackInts(birth_date, "-", 3)
        hm  == IF Truthy(birth_time) THEN UnpackInts(birth_time.s, ":", 2)
               ELSE [ok |-> TRUE, vals |-> DefaultTime]
        td  == TimedeltaHours(tz_offset_hours)
    IN  IF ~ymd.ok THEN Raised("ValueError", "date")
        ELSE IF ~hm.ok THEN Raised("ValueError", "time")
        ELSE IF ~TimezoneAccepts(td) THEN Raised("ValueError", "offset")
        ELSE IF ~ValidDateTimeFields(ymd.vals[1], ymd.vals[2], ymd.vals[3],
                                     hm.vals[1], hm.vals[2])
             THEN Raised("ValueError", "datetime")
        ELSE [exc |-> "none", at |-> "none",
              year |-> ymd.vals[1], month |-> ymd.vals[2], day |-> ymd.vals[3],
              hour |-> hm.vals[1], minute |-> hm.vals[2], offset |-> td]

(***************************************************************************)
(* datetime.astimezone(timezone.utc), src/main.py:81: the local reading    *)
(* minus its offset; OverflowError when the result leaves MINYEAR..MAXYEAR.*)
(***************************************************************************)
PrevDay(y, m, d) ==
    IF d > 1 THEN [year |-> y, month |-> m, day |-> d - 1]
    ELSE IF m > 1 THEN [year |-> y, month |-> m - 1, day |-> DaysInMonth(y, m - 1)]
    ELSE [year |-> y - 1, month |-> 12, day |-> 31]

NextDay(y, m, d) ==
    IF d < DaysInMonth(y, m) THEN [year |-> y, month |-> m, day |-> d + 1]
    ELSE IF m < 12 THEN [year |-> y, month |-> m + 1, day |-> 1]
    ELSE [year |-> y + 1, month |-> 1, day |-> 1]

ShiftDay(y, m, d, k) ==
    IF k < 0 THEN PrevDay(y, m, d)
    ELSE IF k > 0 THEN NextDay(y, m, d)
    ELSE [year |-> y, month |-> m, day |-> d]

UtcFields(date, minuteOfDay, us) ==
    [exc |-> IF date.year < MINYEAR \/ date.year > MAXYEAR
             THEN "OverflowError" ELSE "none",
     year |-> date.year, month |-> date.month, day |-> date.day,
     hour |-> minuteOfDay \div 60, minute |-> minuteOfDay % 60,
     second |-> us \div 1000000, microsecond |-> us % 1000000]

\* the conversion with the offset added instead of subtracted
AsTimezoneUtcAdding(dt) ==
    LET total == dt.hour * 60 + dt.minute + dt.offset.min
    IN  UtcFields(ShiftDay(dt.year, dt.month, dt.day, total \div 1440),
                  total % 1440, dt.offset.us)

AsTimezoneUtc(dt) ==
    LET borrow == IF dt.offset.us > 0 THEN 1 ELSE 0
        us     == IF dt.offset.us > 0 THEN UsPerMinute - dt.offset.us ELSE 0
        total  == dt.hour * 60 + dt.minute - dt.offset.min - borrow
    IN  UtcFields(ShiftDay(dt.year, dt.month, dt.day, total \div 1440),
                  total % 1440, us)

(***************************************************************************)
(* swe.julday(year, month, day, hour_decimal, swe.GREG_CAL), called at     *)
(* src/main.py:86: the Julian day of the Gregorian date.  The result is    *)
(* [jdn, sec], the real number jdn + 0.5 + sec / 86400; secs is            *)
(* hour_decimal in seconds.                                                *)
(***************************************************************************)
Julday(year, month, day, secs) ==
    LET u  == IF month < 3 THEN year - 1 ELSE year
        u0 == u + 4712
        u1 == IF month + 1 < 4 THEN month + 13 ELSE month + 1
        u2 == (u \div 100) - (u \div 400)
    IN  [jdn |-> ((u0 * 1461) \div 4) + ((306 * u1) \div 10) + day - 64 - u2 + 2,
         sec |-> secs]

(***************************************************************************)
(* _julday_utc, src/main.py:80-86.  hour_decimal is                        *)
(* hour + minute/60 + second/3600; the microsecond field is not used.      *)
(***************************************************************************)
JuldayUtc(dt_local) ==
    LET dt_utc == AsTimezoneUtc(dt_local)
    IN  IF dt_utc.exc # "none"
        THEN [exc |-> dt_utc.exc, jd |-> [jdn |-> 0, sec |-> 0], utc |-> dt_utc]
        ELSE [exc |-> "none",
              jd  |-> Julday(dt_utc.year, dt_utc.month, dt_utc.day,
                             dt_utc.hour * 3600 + dt_utc.minute * 60
                                 + dt_utc.second),
              utc |-> dt_utc]

\* lines 96-99 of calculate_natal_chart: the two calls in sequence
Normalize(birth_date, birth_time, tz_offset_hours) ==
    LET dt_local == ParseLocalDatetime(birth_date, birth_time, tz_offset_hours)
    IN  IF dt_local.exc # "none"
        THEN [exc |-> dt_local.exc, at |-> dt_local.at,
              jd |-> [jdn |-> 0, sec |-> 0]]
        ELSE LET j == JuldayUtc(dt_local)
             IN  [exc |-> j.exc,
                  at  |-> IF j.exc = "none" THEN "none" ELSE "astimezone",
                  jd  |-> j.jd]

(***************************************************************************)
(* Requests.                                                               *)
(***************************************************************************)
Workers == 1..NumWorkers

None == [present |-> FALSE, s |-> << >>]
Str(s) == [present |-> TRUE, s |-> s]

Hours(h) == [min |-> 60 * h, qus |-> 0]

NatalRequest(bd, bt, unknown, lat, tz) ==
    [birth_date |-> bd, birth_time |-> bt, time_unknown |-> unknown,
     latitude |-> lat, longitude |-> 37620, tz_offset_hours |-> tz]

D_2000_01_01 == << "2", "0", "0", "0", "-", "0", "1", "-", "0", "1" >>
D_1999_12_31 == << "1", "9", "9", "9", "-", "1", "2", "-", "3", "1" >>
D_2000_02_29 == << "2", "0", "0", "0", "-", "0", "2", "-", "2", "9" >>
D_2000_03_01 == << "2", "0", "0", "0", "-", "0", "3", "-", "0", "1" >>
D_2001_02_29 == << "2", "0", "0", "1", "-", "0", "2", "-", "2", "9" >>
D_0001_01_01 == << "0", "0", "0", "1", "-", "0", "1", "-", "0", "1" >>
D_9999_12_31 == << "9", "9", "9", "9", "-", "1", "2", "-", "3", "1" >>
D_slashes    == << "2", "0", "0", "0", "/", "0", "1", "/", "0", "1" >>
D_short      == << "2", "0", "0", "0", "-", "1", "-", "1" >>
D_two_fields == << "2", "0", "0", "0", "-", "0", "1" >>
D_month_13   == << "2", "0", "0", "0", "-", "1", "3", "-", "0", "1" >>

T_12_00 == << "1", "2", ":", "0", "0" >>
T_09_00 == << "0", "9", ":", "0", "0" >>
T_15_00 == << "1", "5", ":", "0", "0" >>
T_00_30 == << "0", "0", ":", "3", "0" >>
T_21_30 == << "2", "1", ":", "3", "0" >>
T_23_30 == << "2", "3", ":", "3", "0" >>
T_02_30 == << "0", "2", ":", "3", "0" >>
T_7_5   == << "7", ":", "5" >>
T_12_60 == << "1", "2", ":", "6", "0" >>
T_24_00 == << "2", "4", ":", "0", "0" >>
T_dash  == << "1", "2", "-", "0", "0" >>
T_three == << "1", "2", ":", "0", "0", ":", "0", "0" >>
T_alpha == << "a", "b", ":", "c", "d" >>

Dates ==
    { D_2000_01_01, D_1999_12_31, D_2000_02_29, D_2000_03_01, D_2001_02_29,
      D_0001_01_01, D_9999_12_31, D_slashes, D_short, D_two_fields,
      D_month_13 }

Times ==
    { None, Str(<< >>), Str(T_12_00), Str(T_09_00), Str(T_15_00),
      Str(T_00_30), Str(T_21_30), Str(T_23_30), Str(T_02_30), Str(T_7_5),
      Str(T_12_60), Str(T_24_00), Str(T_dash), Str(T_three), Str(T_alpha) }

\* 0, 3, -3, 5.5, 0.0001, 23:59, 24, -24, 25 hours, and the offsets one,
\* two and three quarters of a microsecond inside the 24 hour limits
Offsets ==
    { Hours(0), Hours(3), Hours(-3), [min |-> 330, qus |-> 0],
      [min |-> 0, qus |-> 1440000], [min |-> 1439, qus |-> 0],
      Hours(24), Hours(-24), Hours(25),
      [min |-> 1439, qus |-> QusPerMinute - 1],
      [min |-> 1439, qus |-> QusPerMinute - 2],
      [min |-> 1439, qus |-> QusPerMinute - 3],
      [min |-> -1440, qus |-> 1], [min |-> -1440, qus |-> 2],
      [min |-> -1440, qus |-> 3] }

\* latitudes are 55.75 and 89.9, the longitude is 37.62
SequentialRequests ==
    { NatalRequest(bd, bt, u, 55750, tz) :
        bd \in Dates, bt \in Times, u \in BOOLEAN, tz \in Offsets }

ConcurrentRequests ==
    { NatalRequest(D_2000_01_01, Str(T_12_00), FALSE, 55750, Hours(0)),
      NatalRequest(D_2000_01_01, Str(T_15_00), FALSE, 55750, Hours(3)),
      NatalRequest(D_2000_01_01, None, TRUE, 89900, Hours(0)),
      NatalRequest(D_slashes, Str(T_12_00), FALSE, 55750, Hours(0)) }

NoRequest == NatalRequest(<< >>, None, FALSE, 0, Hours(0))

(***************************************************************************)
(* The ephemeris library.  Its results are not computed by this            *)
(* repository: a call returns some outcome, and the same call returns the  *)
(* same outcome again (oracle records the outcomes returned so far).  A    *)
(* call is identified by the search path in force, the query and its       *)
(* arguments.  An outcome is a failure (swe.Error is raised) or a tuple:   *)
(* for calc_ut the first element is the longitude, for houses the tuple is *)
(* ascmc, whose first element is the ascendant.                            *)
(***************************************************************************)
Failure == [ok |-> FALSE, out |-> << >>]
Returns(t) == [ok |-> TRUE, out |-> t]

\* longitudes 359.999 and 30 with some second element
CalcOutcomes == { Failure, Returns(<< 359999, 0 >>), Returns(<< 30000, 0 >>) }

\* ascmc with ascendant 29.999 and MC 270, or ascendant -0.001 and MC 90
HousesOutcomes == { Failure, Returns(<< 29999, 270000 >>), Returns(<< -1, 90000 >>) }

VARIABLES
    pc,          \* pc[w]: the statement worker w executes next
    payload,     \* payload[w]: the request worker w handles
    dt_local,    \* dt_local[w], src/main.py:96
    jd_ut,       \* jd_ut[w], src/main.py:99
    sun_lon,     \* sun_lon[w], src/main.py:103
    moon_lon,    \* moon_lon[w], src/main.py:104
    asc_deg,     \* asc_deg[w], src/main.py:107
    raised,      \* raised[w]: the exception that ended the call, if any
    response,    \* response[w]: the NatalResponse returned, << >> if none
    status,      \* status[w]: the HTTP status of the reply, 0 if none yet
    calls,       \* calls[w]: the library queries worker w made, in order
    received,    \* the number of requests received so far
    ephe_path,   \* the search path of the ephemeris library (process-wide)
    oracle,      \* the outcomes the library has returned, by call
    lon,         \* input of the sign mapper
    sign         \* output of the sign mapper

vars ==
    << pc, payload, dt_local, jd_ut, sun_lon, moon_lon, asc_deg, raised, response,
       status, calls, received, received, ephe_path, oracle, lon, sign >>

handlerVars ==
    << pc, payload, dt_local, jd_ut, sun_lon, moon_lon, asc_deg, raised, response,
       status, calls, received, ephe_path, oracle >>

NoException == [exc |-> "none", at |-> "none"]
NoResponse == << >>
NoJd == [jdn |-> 0, sec |-> 0]
NoDatetime == Raised("none", "none")

\* the reply of the framework: the handler has no try/except and the
\* application registers no exception handler (src/main.py:56-64, 94-120),
\* so every exception leaving the handler is answered with status 500
HttpStatus(exc) == IF exc = "none" THEN 200 ELSE 500

\* the sign mapper inputs: every 30 degree band of -MaxTurns..MaxTurns turns
\* at its first, second, middle and last thousandth, and -10 degrees
Longitudes ==
    { 30 * Milli * k + e :
        k \in (-12 * MaxTurns)..(12 * MaxTurns - 1),
        e \in {0, 1, 15 * Milli, 30 * Milli - 1} } \cup {-10 * Milli}

(***************************************************************************)
(* Initial state: every worker idle, the search path as the library        *)
(* starts, no library call made yet.                                       *)
(***************************************************************************)
HandlerInit ==
    /\ pc = [w \in Workers |-> "idle"]
    /\ payload = [w \in Workers |-> NoRequest]
    /\ dt_local = [w \in Workers |-> NoDatetime]
    /\ jd_ut = [w \in Workers |-> NoJd]
    /\ sun_lon = [w \in Workers |-> 0]
    /\ moon_lon = [w \in Workers |-> 0]
    /\ asc_deg = [w \in Workers |-> 0]
    /\ raised = [w \in Workers |-> NoException]
    /\ response = [w \in Workers |-> NoResponse]
    /\ status = [w \in Workers |-> 0]
    /\ calls = [w \in Workers |-> << >>]
    /\ received = 0
    /\ ephe_path = "unset"
    /\ oracle = << >>

Init ==
    /\ HandlerInit
    /\ lon = 0
    /\ sign = "unset"

(***************************************************************************)
(* The framework hands a request to calculate_natal_chart on worker w;     *)
(* limit is the number of requests of the behaviour.                       *)
(***************************************************************************)
Receive(w, requests, limit) ==
    /\ pc[w] = "idle"
    /\ received < limit
    /\ received' = received + 1
    /\ \E r \in requests : payload' = [payload EXCEPT ![w] = r]
    /\ pc' = [pc EXCEPT ![w] = "parse"]
    /\ UNCHANGED << dt_local, jd_ut, sun_lon, moon_lon, asc_deg, raised,
                    response, status, calls, ephe_path, oracle, lon, sign >>

\* an exception leaves the handler: no response, the framework replies
Fails(w, exc, at) ==
    /\ raised' = [raised EXCEPT ![w] = [exc |-> exc, at |-> at]]
    /\ status' = [status EXCEPT ![w] = HttpStatus(exc)]
    /\ pc' = [pc EXCEPT ![w] = "failed"]
    /\ response' = response

\* src/main.py:96-98: dt_local = _parse_local_datetime(...)
ParseStep(w) ==
    /\ pc[w] = "parse"
    /\ LET dt == ParseLocalDatetime(payload[w].birth_date,
                                    payload[w].birth_time,
                                    payload[w].tz_offset_hours)
       IN  IF dt.exc # "none"
           THEN /\ Fails(w, dt.exc, dt.at)
                /\ dt_local' = dt_local
           ELSE /\ dt_local' = [dt_local EXCEPT ![w] = dt]
                /\ pc' = [pc EXCEPT ![w] = "julday"]
                /\ UNCHANGED << raised, response, status >>
    /\ UNCHANGED << payload, jd_ut, sun_lon, moon_lon, asc_deg, calls,
                    received, ephe_path, oracle, lon, sign >>

\* src/main.py:99: jd_ut = _julday_utc(dt_local)
JuldayStep(w) ==
    /\ pc[w] = "julday"
    /\ LET j == JuldayUtc(dt_local[w])
       IN  IF j.exc # "none"
           THEN /\ Fails(w, j.exc, "astimezone")
                /\ jd_ut' = jd_ut
           ELSE /\ jd_ut' = [jd_ut EXCEPT ![w] = j.jd]
                /\ pc' = [pc EXCEPT ![w] = "set_ephe_path"]
                /\ UNCHANGED << raised, response, status >>
    /\ UNCHANGED << payload, dt_local, sun_lon, moon_lon, asc_deg, calls,
                    received, ephe_path, oracle, lon, sign >>

\* a search path that depends on the request being handled
SetEphePathPerRequest(w) ==
    /\ pc[w] = "set_ephe_path"
    /\ ephe_path' = IF payload[w].time_unknown THEN "unknown" ELSE "."
    /\ pc' = [pc EXCEPT ![w] = "calc_sun"]
    /\ UNCHANGED << payload, dt_local, jd_ut, sun_lon, moon_lon, asc_deg, raised,
                    response, status, calls, received, oracle, lon, sign >>

\* src/main.py:101: swe.set_ephe_path(".")
SetEphePath(w) ==
    /\ pc[w] = "set_ephe_path"
    /\ ephe_path' = "."
    /\ pc' = [pc EXCEPT ![w] = "calc_sun"]
    /\ UNCHANGED << payload, dt_local, jd_ut, sun_lon, moon_lon, asc_deg, raised,
                    response, status, calls, received, oracle, lon, sign >>

(***************************************************************************)
(* A library call by worker w: the outcome recorded for this call if it    *)
(* was made before, any outcome otherwise.                                 *)
(***************************************************************************)
CallKey(query, jd, lat, lng) ==
    [path |-> ephe_path, query |-> query, jd |-> jd, lat |-> lat, lng |-> lng]

Outcomes(key, fresh) ==
    IF key \in DOMAIN oracle THEN {oracle[key]} ELSE fresh

Library(w, key, outcome) ==
    /\ oracle' = (key :> outcome) @@ oracle
    /\ calls' = [calls EXCEPT ![w] = Append(@, key)]

\* src/main.py:103: sun_lon, *_ = swe.calc_ut(jd_ut, swe.SUN)
CalcSun(w) ==
    /\ pc[w] = "calc_sun"
    /\ LET key == CallKey("SUN", jd_ut[w], 0, 0)
       IN  \E o \in Outcomes(key, CalcOutcomes) :
             /\ Library(w, key, o)
             /\ IF o.ok
                THEN /\ sun_lon' = [sun_lon EXCEPT ![w] = o.out[1]]
                     /\ pc' = [pc EXCEPT ![w] = "calc_moon"]
                     /\ UNCHANGED << raised, response, status >>
                ELSE /\ Fails(w, "swe.Error", "calc_sun")
                     /\ sun_lon' = sun_lon
    /\ UNCHANGED << payload, dt_local, jd_ut, moon_lon, asc_deg, received, ephe_path, lon, sign >>

\* src/main.py:104: moon_lon, *_ = swe.calc_ut(jd_ut, swe.MOON)
CalcMoon(w) ==
    /\ pc[w] = "calc_moon"
    /\ LET key == CallKey("MOON", jd_ut[w], 0, 0)
       IN  \E o \in Outcomes(key, CalcOutcomes) :
             /\ Library(w, key, o)
             /\ IF o.ok
                THEN /\ moon_lon' = [moon_lon EXCEPT ![w] = o.out[1]]
                     /\ pc' = [pc EXCEPT ![w] = "houses"]
                     /\ UNCHANGED << raised, response, status >>
                ELSE /\ Fails(w, "swe.Error", "calc_moon")
                     /\ moon_lon' = moon_lon
    /\ UNCHANGED << payload, dt_local, jd_ut, sun_lon, asc_deg, received, ephe_path, lon, sign >>

\* a handler that answers without the ascendant when the houses query fails
HousesSwallowing(w) ==
    /\ pc[w] = "houses"
    /\ LET key == CallKey("HOUSES", jd_ut[w], payload[w].latitude,
                          payload[w].longitude)
       IN  \E o \in Outcomes(key, HousesOutcomes) :
             /\ Library(w, key, o)
             /\ IF o.ok
                THEN /\ asc_deg' = [asc_deg EXCEPT ![w] = o.out[1]]
                     /\ pc' = [pc EXCEPT ![w] = "respond"]
                     /\ UNCHANGED << raised, response, status >>
                ELSE /\ response' = [response EXCEPT ![w] =
                           [sun_sign |-> SignFromLongitude(sun_lon[w]),
                            moon_sign |-> SignFromLongitude(moon_lon[w])]]
                     /\ status' = [status EXCEPT ![w] = 200]
                     /\ pc' = [pc EXCEPT ![w] = "done"]
                     /\ UNCHANGED << raised, asc_deg >>
    /\ UNCHANGED << payload, dt_local, jd_ut, sun_lon, moon_lon, received, ephe_path, lon, sign >>

\* src/main.py:106-107: houses, ascmc = swe.houses(jd_ut, latitude,
\* longitude, b"P"); asc_deg = float(ascmc[0])
Houses(w) ==
    /\ pc[w] = "houses"
    /\ LET key == CallKey("HOUSES", jd_ut[w], payload[w].latitude,
                          payload[w].longitude)
       IN  \E o \in Outcomes(key, HousesOutcomes) :
             /\ Library(w, key, o)
             /\ IF o.ok
                THEN /\ asc_deg' = [asc_deg EXCEPT ![w] = o.out[1]]
                     /\ pc' = [pc EXCEPT ![w] = "respond"]
                     /\ UNCHANGED << raised, response, status >>
                ELSE /\ Fails(w, "swe.Error", "houses")
                     /\ asc_deg' = asc_deg
    /\ UNCHANGED << payload, dt_local, jd_ut, sun_lon, moon_lon, received, ephe_path, lon, sign >>

PlanetPosition(name, sgn, longitude) ==
    [name |-> name, sign |-> sgn, longitude |-> longitude]

\* a response whose planets list has the Moon first
NatalResponseMoonFirst(sun, moon, asc) ==
    [sun_sign |-> SignFromLongitude(sun),
     moon_sign |-> SignFromLongitude(moon),
     ascendant_sign |-> SignFromLongitude(asc),
     ascendant_degree |-> asc,
     planets |-> << PlanetPosition("Luna", SignFromLongitude(moon), moon),
                    PlanetPosition("Solntse", SignFromLongitude(sun), sun) >>]

\* src/main.py:109-120; the names are Solntse (Sun) and Luna (Moon)
NatalResponse(sun, moon, asc) ==
    [sun_sign |-> SignFromLongitude(sun),
     moon_sign |-> SignFromLongitude(moon),
     ascendant_sign |-> SignFromLongitude(asc),
     ascendant_degree |-> asc,
     planets |-> << PlanetPosition("Solntse", SignFromLongitude(sun), sun),
                    PlanetPosition("Luna", SignFromLongitude(moon), moon) >>]

\* src/main.py:109-120: the response is built and returned
Respond(w) ==
    /\ pc[w] = "respond"
    /\ response' = [response EXCEPT ![w] =
                       NatalResponse(sun_lon[w], moon_lon[w], asc_deg[w])]
    /\ status' = [status EXCEPT ![w] = HttpStatus("none")]
    /\ pc' = [pc EXCEPT ![w] = "done"]
    /\ UNCHANGED << payload, dt_local, jd_ut, sun_lon, moon_lon, asc_deg, raised, calls,
                    received, ephe_path, oracle, lon, sign >>

\* the call has returned or raised: the reply is sent, the frame is gone and
\* the worker is free for the next request
Finish(w) ==
    /\ pc[w] \in {"done", "failed"}
    /\ pc' = [pc EXCEPT ![w] = "idle"]
    /\ payload' = [payload EXCEPT ![w] = NoRequest]
    /\ dt_local' = [dt_local EXCEPT ![w] = NoDatetime]
    /\ jd_ut' = [jd_ut EXCEPT ![w] = NoJd]
    /\ sun_lon' = [sun_lon EXCEPT ![w] = 0]
    /\ moon_lon' = [moon_lon EXCEPT ![w] = 0]
    /\ asc_deg' = [asc_deg EXCEPT ![w] = 0]
    /\ raised' = [raised EXCEPT ![w] = NoException]
    /\ response' = [response EXCEPT ![w] = NoResponse]
    /\ status' = [status EXCEPT ![w] = 0]
    /\ calls' = [calls EXCEPT ![w] = << >>]
    /\ UNCHANGED << received, ephe_path, oracle, lon, sign >>

Handle(w) ==
    \/ ParseStep(w)
    \/ JuldayStep(w)
    \/ SetEphePath(w)
    \/ CalcSun(w)
    \/ CalcMoon(w)
    \/ Houses(w)
    \/ Respond(w)
    \/ Finish(w)

(***************************************************************************)
(* Spec: the workers handle one request each, concurrently; every          *)
(* statement that touches the library is one step.                         *)
(***************************************************************************)
Next ==
    \E w \in Workers : Receive(w, ConcurrentRequests, MaxRequests) \/ Handle(w)

Spec == Init /\ [][Next]_vars

(***************************************************************************)
(* SpecSeq: one request, any of SequentialRequests, handled alone.         *)
(***************************************************************************)
NextSeq == Receive(1, SequentialRequests, 1) \/ Handle(1)

SpecSeq == Init /\ [][NextSeq]_vars

(***************************************************************************)
(* SpecSign: the sign mapper applied to each of Longitudes.                *)
(***************************************************************************)
InitSign ==
    /\ HandlerInit
    /\ lon \in Longitudes
    /\ sign = "unset"

MapSign ==
    /\ sign = "unset"
    /\ sign' = SignFromLongitude(lon)
    /\ UNCHANGED << handlerVars, lon >>

NextLongitude ==
    /\ sign # "unset"
    /\ lon' \in Longitudes
    /\ sign' = "unset"
    /\ UNCHANGED handlerVars

NextSign == MapSign \/ NextLongitude

SpecSign == InitSign /\ [][NextSign]_vars

(***************************************************************************)
(*                              PROPERTIES                                 *)
(***************************************************************************)

SignNames == { SIGNS_RU[i] : i \in 1..12 }

\* the 30 degree band of a longitude, found by bounding it, without division
BandOf(l) ==
    CHOOSE n \in (-12 * (MaxTurns + 1))..(12 * (MaxTurns + 1)) :
        30 * Milli * n <= l /\ l < 30 * Milli * (n + 1)

C5_SignIsFloorBand ==
    sign # "unset" =>
        /\ \A k \in 0..11 :
             (30 * Milli * k <= lon /\ lon < 30 * Milli * (k + 1))
                 => sign = SIGNS_RU[k + 1]
        /\ sign = SIGNS_RU[(BandOf(lon) % 12) + 1]
        /\ lon \in {0, 29999} => sign = "Oven"
        /\ lon = 30000 => sign = "Telets"
        /\ lon \in {-1, -10000, 359999} => sign = "Ryby"

\* -0.001 degrees was mapped to the last sign
C5_Witness == lon = -1 /\ sign = "Ryby"

(***************************************************************************)
(* The formats the interface documents, character by character.            *)
(***************************************************************************)
AllDigits(s, positions) == \A i \in positions : s[i] \in Digits

Num2(s, i) == 10 * DigitVal(s[i]) + DigitVal(s[i + 1])

Num4(s, i) == 100 * Num2(s, i) + Num2(s, i + 2)

\* YYYY-MM-DD naming a calendar date
StrictYMD(s) ==
    /\ Len(s) = 10
    /\ s[5] = "-" /\ s[8] = "-"
    /\ AllDigits(s, {1, 2, 3, 4, 6, 7, 9, 10})
    /\ Num4(s, 1) >= 1
    /\ Num2(s, 6) \in 1..12
    /\ Num2(s, 9) >= 1
    /\ Num2(s, 9) <= DaysInMonth(Num4(s, 1), Num2(s, 6))

\* HH:MM naming a clock time
StrictHM(s) ==
    /\ Len(s) = 5
    /\ s[3] = ":"
    /\ AllDigits(s, {1, 2, 4, 5})
    /\ Num2(s, 1) <= 23
    /\ Num2(s, 4) <= 59

\* the exact offset lies strictly between -24 h and 24 h
InsideOpenDay(tz) ==
    /\ (tz.min > -1440 \/ (tz.min = -1440 /\ tz.qus > 0))
    /\ tz.min < 1440

\* the exact offset is more than half a microsecond inside -24 h .. 24 h
InsideRoundedDay(tz) ==
    /\ (tz.min > -1440 \/ (tz.min = -1440 /\ tz.qus > 2))
    /\ (tz.min < 1439 \/ (tz.min = 1439 /\ tz.qus < QusPerMinute - 2))

Finished(w) == pc[w] \in {"done", "failed"}

Parsed(w) == pc[w] \notin {"idle", "parse"}

ParseFailures == {"date", "time", "offset", "datetime"}

\* C1: a request whose birth_date is not YYYY-MM-DD ends in a client-input
\* failure, never in a 500-class error; it makes no library call and gets
\* no response body.
C1_MalformedDateIsClientError ==
    \A w \in Workers :
        (Finished(w) /\ ~StrictYMD(payload[w].birth_date)) =>
            /\ pc[w] = "failed"
            /\ status[w] \in 400..499
            /\ calls[w] = << >>
            /\ response[w] = NoResponse

\* C2: with the rest of the request well-formed, a present birth_time that
\* is not HH:MM ends in a client-input failure, with a status that is not
\* the one of a library failure; a present birth_time of
\* a request that is answered is HH:MM.
C2_MalformedTimeIsClientError ==
    \A w \in Workers :
        ( /\ Finished(w)
          /\ payload[w].birth_time.present
          /\ StrictYMD(payload[w].birth_date)
          /\ InsideRoundedDay(payload[w].tz_offset_hours) ) =>
            /\ ~StrictHM(payload[w].birth_time.s) =>
                  /\ pc[w] = "failed"
                  /\ status[w] \in 400..499
                  /\ status[w] # HttpStatus("swe.Error")
            /\ pc[w] = "done" => StrictHM(payload[w].birth_time.s)

\* C6: with birth_time absent the local timestamp and the astronomical time
\* are those of the same request with birth_time "12:00", whatever
\* time_unknown is; with a well-formed date and an offset in range the
\* absent time is not an error.
C6_AbsentTimeIsNoon ==
    \A w \in Workers :
        (Parsed(w) /\ ~payload[w].birth_time.present) =>
            LET p    == payload[w]
                noon == ParseLocalDatetime(p.birth_date, Str(T_12_00),
                                           p.tz_offset_hours)
            IN  /\ (StrictYMD(p.birth_date)
                      /\ InsideRoundedDay(p.tz_offset_hours))
                       => raised[w].at \notin ParseFailures
                /\ IF raised[w].at \in ParseFailures
                   THEN noon.exc = raised[w].exc /\ noon.at = raised[w].at
                   ELSE /\ dt_local[w] = noon
                        /\ dt_local[w].hour = 12 /\ dt_local[w].minute = 0
                        /\ \/ pc[w] = "julday"
                           \/ /\ raised[w].at = "astimezone"
                              /\ JuldayUtc(noon).exc = raised[w].exc
                           \/ /\ raised[w].at # "astimezone"
                              /\ JuldayUtc(noon).exc = "none"
                              /\ jd_ut[w] = JuldayUtc(noon).jd

\* 2000-01-01 without a time and without the flag, at offset 0, became
\* Julian day 2451545.0
C6_Witness ==
    /\ pc[1] = "set_ephe_path"
    /\ payload[1].birth_date = D_2000_01_01
    /\ payload[1].birth_time = None
    /\ ~payload[1].time_unknown
    /\ payload[1].tz_offset_hours = Hours(0)
    /\ jd_ut[1] = [jdn |-> 2451544, sec |-> 43200]

(***************************************************************************)
(* Day numbers, for comparing two clock readings without converting        *)
(* either of them.                                                         *)
(***************************************************************************)
DaysBeforeYear(y) ==
    (y - 1) * 365 + ((y - 1) \div 4) - ((y - 1) \div 100) + ((y - 1) \div 400)

RECURSIVE DaysBeforeMonth(_, _)
DaysBeforeMonth(y, m) ==
    IF m = 1 THEN 0 ELSE DaysBeforeMonth(y, m - 1) + DaysInMonth(y, m - 1)

ToOrdinal(y, m, d) == DaysBeforeYear(y) + DaysBeforeMonth(y, m) + d

\* reading b is reading a moved back by the given number of minutes
ShiftedBack(a, b, minutes) ==
    LET days == ToOrdinal(a.year, a.month, a.day)
                    - ToOrdinal(b.year, b.month, b.day)
    IN  /\ days \in -2..2
        /\ days * 1440 + (a.hour * 60 + a.minute) - (b.hour * 60 + b.minute)
             = minutes

\* the clock readings of Dates x Times that are dt moved back by its offset
ShiftedReadings(dt) ==
    { r \in Dates \X Times :
        LET b == ParseLocalDatetime(r[1], r[2], Hours(0))
        IN  b.exc = "none" /\ ShiftedBack(dt, b, dt.offset.min) }

\* C7: a request at offset h (whole minutes) gets the astronomical time of
\* the request at offset 0 whose date and time are its own moved back by h,
\* also when that is another day, month or year; when the conversion
\* overflows, no such date exists.
C7_OffsetIsSubtracted ==
    \A w \in Workers :
        ( /\ pc[w] = "set_ephe_path" \/ raised[w].at = "astimezone"
          /\ payload[w].tz_offset_hours.qus = 0 ) =>
            \A r \in ShiftedReadings(dt_local[w]) :
                /\ pc[w] = "set_ephe_path"
                /\ Normalize(r[1], r[2], Hours(0)).exc = "none"
                /\ Normalize(r[1], r[2], Hours(0)).jd = jd_ut[w]

\* a reading at offset +3 h was converted whose UTC date is in the year before
C7_Witness ==
    /\ pc[1] = "set_ephe_path"
    /\ payload[1].tz_offset_hours = Hours(3)
    /\ \E r \in ShiftedReadings(dt_local[1]) :
         /\ r[1] = D_1999_12_31
         /\ payload[1].birth_date = D_2000_01_01

\* C10 as stated: with a well-formed date and time, _parse_local_datetime
\* succeeds exactly when the offset is strictly between -24 and 24 hours,
\* and a request with an offset of 24 hours or more in magnitude fails
\* before the search path is set, with no library call and no response.
C10_ParsesIffInsideOpenDay ==
    \A w \in Workers :
        Parsed(w) =>
            LET p == payload[w]
            IN  /\ ( /\ StrictYMD(p.birth_date)
                     /\ (p.birth_time.present => StrictHM(p.birth_time.s)) )
                       => (raised[w].at \notin ParseFailures
                             <=> InsideOpenDay(p.tz_offset_hours))
                /\ ~InsideOpenDay(p.tz_offset_hours) =>
                      /\ pc[w] = "failed"
                      /\ raised[w].at \in ParseFailures
                      /\ calls[w] = << >>
                      /\ response[w] = NoResponse
                      /\ ephe_path = "unset"

\* C10 amended: the same, with the offset taken after timedelta has rounded
\* it to whole microseconds, that is, with an offset more than half a
\* microsecond inside -24 .. 24 hours.
C10_ParsesIffInsideRoundedDay ==
    \A w \in Workers :
        Parsed(w) =>
            LET p == payload[w]
            IN  /\ ( /\ StrictYMD(p.birth_date)
                     /\ (p.birth_time.present => StrictHM(p.birth_time.s)) )
                       => (raised[w].at \notin ParseFailures
                             <=> InsideRoundedDay(p.tz_offset_hours))
                /\ ~InsideOpenDay(p.tz_offset_hours) =>
                      /\ pc[w] = "failed"
                      /\ raised[w].at \in ParseFailures
                      /\ calls[w] = << >>
                      /\ response[w] = NoResponse
                      /\ ephe_path = "unset"

\* a well-formed request a quarter of a microsecond short of +24 h was
\* rejected for its offset
C10_Witness ==
    /\ pc[1] = "failed"
    /\ raised[1] = [exc |-> "ValueError", at |-> "offset"]
    /\ payload[1].birth_date = D_2000_01_01
    /\ payload[1].birth_time = Str(T_12_00)
    /\ payload[1].tz_offset_hours = [min |-> 1439, qus |-> QusPerMinute - 1]

ResponseFields ==
    {"sun_sign", "moon_sign", "ascendant_sign", "ascendant_degree", "planets"}

\* the i-th library call of worker w failed
CallFailed(w, i) == ~oracle[calls[w][i]].ok

\* C3: when one of the three library calls of a request fails, the request
\* is in the failure state with the library's error and has no response; a
\* response has all five fields or none; the failed call is the last call
\* of the request and no call of a request is made twice.
C3_LibraryFailureFailsRequest ==
    \A w \in Workers :
        /\ DOMAIN response[w] \in {{}, ResponseFields}
        /\ Len(calls[w]) <= 3
        /\ \A i \in 1..Len(calls[w]) :
             CallFailed(w, i) =>
                /\ i = Len(calls[w])
                /\ pc[w] = "failed"
                /\ raised[w].exc = "swe.Error"
                /\ response[w] = NoResponse
                /\ status[w] # 200
        /\ \A i, j \in 1..Len(calls[w]) : i # j => calls[w][i] # calls[w][j]
        /\ (pc[w] = "done") <=> (response[w] # NoResponse)

\* the houses query of the request at latitude 89.9 failed after both
\* longitudes had been returned
C3_Witness ==
    \E w \in Workers :
        /\ pc[w] = "failed"
        /\ raised[w] = [exc |-> "swe.Error", at |-> "houses"]
        /\ payload[w].latitude = 89900
        /\ Len(calls[w]) = 3
        /\ CallFailed(w, 3)

\* C8: a response has exactly two planets, the Sun then the Moon; the sign
\* fields repeat the signs of the planets, which are the signs of their
\* longitudes; ascendant_degree is the first angle the houses query
\* returned and ascendant_sign is its sign.
C8_ResponseIsConsistent ==
    \A w \in Workers :
        pc[w] = "done" =>
            LET r == response[w]
            IN  /\ Len(r.planets) = 2
                /\ r.planets[1].name = "Solntse"
                /\ r.planets[2].name = "Luna"
                /\ r.sun_sign = r.planets[1].sign
                /\ r.sun_sign = SignFromLongitude(r.planets[1].longitude)
                /\ r.moon_sign = r.planets[2].sign
                /\ r.moon_sign = SignFromLongitude(r.planets[2].longitude)
                /\ Len(calls[w]) = 3
                /\ calls[w][3].query = "HOUSES"
                /\ r.ascendant_degree = oracle[calls[w][3]].out[1]
                /\ r.ascendant_sign = SignFromLongitude(r.ascendant_degree)

\* a response with the Sun in the last sign, the Moon in the second and an
\* ascendant of -0.001 degrees
C8_Witness ==
    \E w \in Workers :
        /\ pc[w] = "done"
        /\ response[w].sun_sign = "Ryby"
        /\ response[w].moon_sign = "Telets"
        /\ response[w].ascendant_degree = -1
        /\ response[w].ascendant_sign = "Ryby"

(***************************************************************************)
(* The request handled alone: from the initial state the handler sets the  *)
(* path to "." and then makes its three queries.                           *)
(***************************************************************************)
AloneKey(query, jd, lat, lng) ==
    [path |-> ".", query |-> query, jd |-> jd, lat |-> lat, lng |-> lng]

AloneKeys(p) ==
    LET jd == Normalize(p.birth_date, p.birth_time, p.tz_offset_hours).jd
    IN  << AloneKey("SUN", jd, 0, 0), AloneKey("MOON", jd, 0, 0),
           AloneKey("HOUSES", jd, p.latitude, p.longitude) >>

\* the library has answered the first n of the queries keys
AloneAnswered(keys, n) ==
    \A i \in 1..n : keys[i] \in DOMAIN oracle /\ oracle[keys[i]].ok

AloneFailedAt(keys, n) ==
    /\ AloneAnswered(keys, n - 1)
    /\ keys[n] \in DOMAIN oracle
    /\ ~oracle[keys[n]].ok

\* C9: whatever the interleaving, a finished request has the outcome it has
\* when handled alone; the search path is only ever "." once written, it is
\* "." whenever a worker is between its write and its return, and every
\* library call is made under it.
C9_ConcurrentAsAlone ==
    /\ ephe_path \in {"unset", "."}
    /\ \A w \in Workers :
         pc[w] \in {"calc_sun", "calc_moon", "houses", "respond", "done"}
             => ephe_path = "."
    /\ \A w \in Workers :
         Finished(w) =>
             LET p    == payload[w]
                 n    == Normalize(p.birth_date, p.birth_time,
                                   p.tz_offset_hours)
                 keys == AloneKeys(p)
             IN  /\ \A i \in 1..Len(calls[w]) : calls[w][i] = keys[i]
                 /\ pc[w] = "done" =>
                       /\ n.exc = "none"
                       /\ AloneAnswered(keys, 3)
                       /\ response[w] =
                            NatalResponse(oracle[keys[1]].out[1],
                                          oracle[keys[2]].out[1],
                                          oracle[keys[3]].out[1])
                 /\ pc[w] = "failed" =>
                       /\ response[w] = NoResponse
                       /\ \/ n.exc # "none" /\ raised[w].exc = n.exc
                          \/ /\ n.exc = "none"
                             /\ raised[w].exc = "swe.Error"
                             /\ AloneFailedAt(keys, Len(calls[w]))
    /\ \A w \in Workers :
         \A i \in 1..Len(calls[w]) : calls[w][i].path = "."
    /\ \A v, w \in Workers :
         (Finished(v) /\ Finished(w) /\ payload[v] = payload[w]) =>
             (response[v] = response[w] /\ status[v] = status[w])

\* two requests in flight at once, one answered and one past its write of
\* the search path, after a third request has come and gone
C9_Witness ==
    \E v, w \in Workers :
        /\ v # w
        /\ pc[v] = "done"
        /\ pc[w] \in {"calc_sun", "calc_moon", "houses"}
        /\ payload[v] # payload[w]
        /\ received = 3

====
